---- MODULE Spec2Model ----
(***************************************************************************)
(* Registration / capacity / payment consistency of the Mara sports        *)
(* festival backend.  Models                                               *)
(*   backend/app/db/models/sport.py         (SportCategory)                *)
(*   backend/app/db/models/registration.py  (Registration)                 *)
(*   backend/app/db/models/payment.py       (Payment)                      *)
(*   backend/app/services/payment_service.py (PaymentService)              *)
(*   backend/app/db/repository.py           (BaseRepository)               *)
(* Money is counted in minor units (Numeric(10, 2) columns), so every      *)
(* amount is an integer.  Optional columns are <<>> (None) or <<v>>.       *)
(***************************************************************************)
EXTENDS Integers, Sequences, FiniteSets, TLC

\* ---------------------------------------------------------------- bounds
NumStudents == 2      \* students, each with at most one registration
MaxCapacity == 1      \* largest max_participants of the category
MaxAmount   == 3      \* largest payment amount (minor units)
MaxNegative == 1      \* magnitude of the most negative refund request
MaxAttempts == 3      \* OTP.attempts is explored up to MaxAttempts
RefundFloor == 2      \* refund_amount is explored down to -RefundFloor

Students == 1 .. NumStudents
Amounts  == 1 .. MaxAmount

None == << >>
Some(v) == << v >>
\* Python truthiness of an Optional[int]: None and 0 are both false
Truthy(o) == o # None /\ o[1] # 0
\* Python truthiness of an Optional[str]: None and "" are both false
TruthyStr(o) == o # None /\ o[1] # ""

\* ------------------------------------------------------------ enumerations
RegistrationStatus == {"pending", "confirmed", "cancelled", "paid", "rejected"}
PaymentStatus == {"initiated", "pending", "success", "failed", "cancelled",
                  "refunded", "partially_refunded"}
PaymentProvider == {"local", "razorpay", "stripe"}

\* ages and genders a registration request may carry
MinAge == 10
MaxAge == 12
Ages == (MinAge - 1) .. (MaxAge + 1)
Genders == {"male", "female", "Female"}
Lower(g) == IF g = "Female" THEN "female" ELSE g

VARIABLES
    category,        \* the SportCategory row
    registrations,   \* student -> Registration row ("absent" before creation)
    attempt,         \* student -> progress of the registration request
    payment,         \* the Payment row ("absent" before creation)
    sessions,        \* refund request -> its database session
    sponsorship,     \* the Sponsorship row ("absent" before creation)
    otp,             \* the OTP row (no code before creation)
    result           \* outcome of the latest call

vars ==
    << category, registrations, attempt, payment, sessions, sponsorship, otp,
       result >>

\* ------------------------------------------------------------ SportCategory
\* variant that also counts pending rows
current_registrations_with_pending(regs) ==
    Cardinality({s \in Students :
                    regs[s].status \in {"pending", "confirmed", "paid"}})

current_registrations(regs) ==
    Cardinality({s \in Students : regs[s].status \in {"confirmed", "paid"}})

Max(a, b) == IF a >= b THEN a ELSE b

available_spots(cat, regs) ==
    Max(0, cat.max_participants - current_registrations(regs))

is_full(cat, regs) == available_spots(cat, regs) = 0

is_age_eligible(cat, age) ==
    IF Truthy(cat.age_from) /\ age < cat.age_from[1] THEN FALSE
    ELSE IF Truthy(cat.age_to) /\ age > cat.age_to[1] THEN FALSE
    ELSE TRUE

is_gender_eligible(cat, gender) ==
    IF cat.gender_allowed = "any" THEN TRUE
    ELSE Lower(gender) = Lower(cat.gender_allowed)

\* variant that does not look at the free seats
can_register_when_full(cat, regs, age, gender) ==
    /\ cat.is_active
    /\ is_age_eligible(cat, age)
    /\ is_gender_eligible(cat, gender)

can_register(cat, regs, age, gender) ==
    /\ cat.is_active
    /\ ~is_full(cat, regs)
    /\ is_age_eligible(cat, age)
    /\ is_gender_eligible(cat, gender)

\* ------------------------------------------------------------- Registration
NoRegistration ==
    [status |-> "absent", confirmed_at |-> FALSE, cancelled_at |-> FALSE]

\* column defaults of a new row: status PENDING, both timestamps NULL
NewRegistration ==
    [status |-> "pending", confirmed_at |-> FALSE, cancelled_at |-> FALSE]

is_active(r) == r.status \in {"confirmed", "paid"}

\* variant that also lets a paid registration be cancelled
can_be_cancelled_with_paid(r) == r.status \in {"pending", "confirmed", "paid"}

can_be_cancelled(r) == r.status \in {"pending", "confirmed"}

confirm(r) ==
    IF r.status = "pending"
    THEN [r EXCEPT !.status = "confirmed", !.confirmed_at = TRUE]
    ELSE r

\* variant that leaves cancelled_at as it was
cancel_unstamped(r) ==
    IF can_be_cancelled(r) THEN [r EXCEPT !.status = "cancelled"] ELSE r

cancel(r) ==
    IF can_be_cancelled(r)
    THEN [r EXCEPT !.status = "cancelled", !.cancelled_at = TRUE]
    ELSE r

reject(r) ==
    IF r.status = "pending"
    THEN [r EXCEPT !.status = "rejected"]
    ELSE r

mark_as_paid(r) ==
    IF r.status = "confirmed"
    THEN [r EXCEPT !.status = "paid"]
    ELSE r

\* ------------------------------------------------------------------ Payment
NoPayment ==
    [status |-> "absent", amount |-> 0, refund_amount |-> None,
     refund_reason |-> None, registration_id |-> None]

is_successful(p) == p.status = "success"
is_pending(p) == p.status \in {"initiated", "pending"}
is_refunded(p) == p.status \in {"refunded", "partially_refunded"}
\* variant that only asks that no refund was made yet
can_be_refunded_unless_refunded(p) == ~is_refunded(p)

can_be_refunded(p) == is_successful(p) /\ ~is_refunded(p)

refund_amount_remaining(p) ==
    IF ~is_successful(p) THEN 0
    ELSE IF p.refund_amount = None THEN p.amount
    ELSE p.amount - p.refund_amount[1]

mark_successful(p) == [p EXCEPT !.status = "success"]
mark_failed(p) == [p EXCEPT !.status = "failed"]
mark_cancelled(p) == [p EXCEPT !.status = "cancelled"]

\* Payment.process_refund: the row afterwards and the ValueError raised
process_refund(p, refund_amount, reason) ==
    IF ~can_be_refunded(p)
    THEN [payment |-> p, error |-> "Payment cannot be refunded"]
    ELSE IF refund_amount > refund_amount_remaining(p)
    THEN [payment |-> p, error |-> "Refund amount exceeds remaining amount"]
    ELSE LET total == IF p.refund_amount = None THEN refund_amount
                      ELSE p.refund_amount[1] + refund_amount
         IN [payment |-> [p EXCEPT !.refund_amount = Some(total),
                                   !.status = IF total = p.amount
                                              THEN "refunded"
                                              ELSE "partially_refunded",
                                   !.refund_reason = IF TruthyStr(reason)
                                                     THEN reason ELSE @],
             error |-> "none"]

\* --------------------------------------------------------------- initial state
CategoryConfigs ==
    [max_participants : 1 .. MaxCapacity,
     fee : {0, MaxAmount},
     age_from : {Some(MinAge)},
     age_to : {Some(MaxAge)},
     gender_allowed : {"female"},
     is_active : {TRUE}]
    \cup
    [max_participants : 1 .. MaxCapacity,
     fee : {MaxAmount},
     age_from : {None},
     age_to : {Some(0)},
     gender_allowed : {"any"},
     is_active : BOOLEAN]

NoAttempt == [pc |-> "idle", seen |-> 0, raced |-> FALSE]

Workers == {1, 2}
NoSession == [pc |-> "idle", request |-> None, reason |-> None,
              snapshot |-> NoPayment, refunded |-> 0, ret |-> "none"]

NoSponsorship ==
    [status |-> "absent", requested_amount |-> 0, approved_amount |-> None]

NoOTP ==
    [code |-> None, hashed_code |-> None, is_used |-> FALSE, attempts |-> 0,
     expired |-> FALSE]

Init ==
    /\ category \in CategoryConfigs
    /\ registrations = [s \in Students |-> NoRegistration]
    /\ attempt = [s \in Students |-> NoAttempt]
    /\ payment = NoPayment
    /\ sessions = [w \in Workers |-> NoSession]
    /\ sponsorship = NoSponsorship
    /\ otp = NoOTP
    /\ result = "none"

\* ------------------------------------------------- registration request steps
\* First step of a registration request: SportCategory.can_register is read.
\* seen records the available_spots it observed, raced whether another
\* request was between its check and its insert at that moment.
RegisterCheckWith(s, age, gender) ==
    /\ attempt[s].pc \in {"idle", "refused"}
    /\ registrations[s].status = "absent"
    /\ LET ok == can_register(category, registrations, age, gender)
           others == {t \in Students \ {s} : attempt[t].pc = "checked"}
       IN /\ attempt' = [t \in Students |->
                 IF t = s
                 THEN [pc |-> IF ok THEN "checked" ELSE "refused",
                       seen |-> available_spots(category, registrations),
                       raced |-> ok /\ others # {}]
                 ELSE IF t \in others /\ ok
                 THEN [attempt[t] EXCEPT !.raced = TRUE]
                 ELSE attempt[t]]
          /\ result' = IF ok THEN "eligible" ELSE "refused"
    /\ UNCHANGED << category, registrations, payment, sessions,
                    sponsorship, otp >>

RegisterCheck(s) ==
    \E age \in Ages, gender \in Genders : RegisterCheckWith(s, age, gender)

\* Second step: BaseRepository.create inserts the row with its defaults.
RegisterCreate(s) ==
    /\ attempt[s].pc = "checked"
    /\ registrations' = [registrations EXCEPT ![s] = NewRegistration]
    /\ attempt' = [attempt EXCEPT ![s].pc = "created"]
    /\ result' = "created"
    /\ UNCHANGED << category, payment, sessions,
                    sponsorship, otp >>

\* --------------------------------------------------- Registration transitions
\* Each method returns None whether or not it changed the row; result
\* records which method returned.
Exists(s) == registrations[s].status # "absent"

Confirm(s) ==
    /\ Exists(s)
    /\ registrations' = [registrations EXCEPT ![s] = confirm(@)]
    /\ result' = "confirm returned"
    /\ UNCHANGED << category, attempt, payment, sessions,
                    sponsorship, otp >>

Cancel(s) ==
    /\ Exists(s)
    /\ registrations' = [registrations EXCEPT ![s] = cancel(@)]
    /\ result' = "cancel returned"
    /\ UNCHANGED << category, attempt, payment, sessions,
                    sponsorship, otp >>

Reject(s) ==
    /\ Exists(s)
    /\ registrations' = [registrations EXCEPT ![s] = reject(@)]
    /\ result' = "reject returned"
    /\ UNCHANGED << category, attempt, payment, sessions,
                    sponsorship, otp >>

MarkAsPaid(s) ==
    /\ Exists(s)
    /\ registrations' = [registrations EXCEPT ![s] = mark_as_paid(@)]
    /\ result' = "mark_as_paid returned"
    /\ UNCHANGED << category, attempt, payment, sessions,
                    sponsorship, otp >>

\* ------------------------------------------------------------ PaymentService
\* PaymentService.create_payment: the row is inserted INITIATED; a provider
\* other than LOCAL is then "processed", which marks the row successful.
create_payment(amount, provider, registration_id) ==
    LET row == [status |-> "initiated", amount |-> amount,
                refund_amount |-> None, refund_reason |-> None,
                registration_id |-> registration_id]
    IN IF provider # "local" THEN mark_successful(row) ELSE row

RegistrationIds == {None} \cup {Some(s) : s \in {t \in Students : Exists(t)}}

CreatePayment ==
    /\ payment.status = "absent"
    /\ \E amount \in Amounts, provider \in PaymentProvider,
          registration_id \in RegistrationIds :
         payment' = create_payment(amount, provider, registration_id)
    /\ result' = "created"
    /\ UNCHANGED << category, registrations, attempt, sessions,
                    sponsorship, otp >>

\* PaymentService.update_payment_status
\* variant that assigns whatever status is requested
update_payment_status_any(p, status) == [p EXCEPT !.status = status]

update_payment_status(p, status) ==
    IF status = "success" THEN mark_successful(p)
    ELSE IF status = "failed" THEN mark_failed(p)
    ELSE IF status = "cancelled" THEN mark_cancelled(p)
    ELSE p

UpdatePaymentStatus(status) ==
    /\ IF payment.status = "absent"
       THEN /\ result' = "False"
            /\ UNCHANGED payment
       ELSE /\ payment' = update_payment_status(payment, status)
            /\ result' = "True"
    /\ UNCHANGED << category, registrations, attempt, sessions,
                    sponsorship, otp >>

\* PaymentService.process_refund, as one uninterrupted call
RefundInputs == {None} \cup {Some(x) : x \in (0 - MaxNegative) .. MaxAmount}
RefundReasons == {None, Some(""), Some("duplicate")}

\* refund_amount or payment.amount
RefundOrAmount(r, p) == IF Truthy(r) THEN r[1] ELSE p.amount

WithinFloor(p) ==
    IF p.refund_amount = None THEN TRUE
    ELSE p.refund_amount[1] >= 0 - RefundFloor

ProcessRefund(r) ==
    /\ IF payment.status = "absent" \/ ~can_be_refunded(payment)
       THEN /\ result' = "False"
            /\ UNCHANGED payment
       ELSE \E reason \in RefundReasons :
              LET out == process_refund(payment, RefundOrAmount(r, payment),
                                        reason)
              IN /\ WithinFloor(out.payment)
                 /\ payment' = out.payment
                 /\ result' = IF out.error = "none" THEN "True" ELSE out.error
    /\ UNCHANGED << category, registrations, attempt, sessions,
                    sponsorship, otp >>

Next ==
    \/ \E s \in Students : RegisterCheck(s)
    \/ \E s \in Students : RegisterCreate(s)
    \/ \E s \in Students : Confirm(s)
    \/ \E s \in Students : Cancel(s)
    \/ \E s \in Students : Reject(s)
    \/ \E s \in Students : MarkAsPaid(s)
    \/ CreatePayment
    \/ \E status \in PaymentStatus : UpdatePaymentStatus(status)
    \/ \E r \in RefundInputs : ProcessRefund(r)

Spec == Init /\ [][Next]_vars

\* -------------------------------------------------- registration-only system
RegistrationNext ==
    \/ \E s \in Students : RegisterCheck(s)
    \/ \E s \in Students : RegisterCreate(s)
    \/ \E s \in Students : Confirm(s)
    \/ \E s \in Students : Cancel(s)
    \/ \E s \in Students : Reject(s)
    \/ \E s \in Students : MarkAsPaid(s)

RegistrationSpec == Init /\ [][RegistrationNext]_vars

\* ------------------------------------------------------- payment-only system
PaymentNext ==
    \/ CreatePayment
    \/ \E status \in PaymentStatus : UpdatePaymentStatus(status)
    \/ \E r \in RefundInputs : ProcessRefund(r)

PaymentSpec == Init /\ [][PaymentNext]_vars

\* ------------------------------------------- concurrent refund requests
\* PaymentService.process_refund split at its awaits: payment_repo.get reads
\* the row into the request's own session, db.commit writes back the
\* attributes the request changed on its copy.
RefundGet(w, r) ==
    /\ sessions[w].pc = "idle"
    /\ \E reason \in RefundReasons :
          sessions' = [sessions EXCEPT ![w] =
             IF payment.status = "absent"
             THEN [@ EXCEPT !.pc = "done", !.request = r, !.ret = "False"]
             ELSE [@ EXCEPT !.pc = "loaded", !.request = r,
                            !.reason = reason, !.snapshot = payment]]
    /\ result' = "awaiting"
    /\ UNCHANGED << category, registrations, attempt, payment,
                    sponsorship, otp >>

RefundCommit(w) ==
    /\ sessions[w].pc = "loaded"
    /\ LET mine == sessions[w].snapshot
           amount == RefundOrAmount(sessions[w].request, mine)
           out == process_refund(mine, amount, sessions[w].reason)
       IN IF ~can_be_refunded(mine)
          THEN /\ sessions' = [sessions EXCEPT ![w].pc = "done",
                                               ![w].ret = "False"]
               /\ result' = "False"
               /\ UNCHANGED payment
          ELSE IF out.error # "none"
          THEN /\ sessions' = [sessions EXCEPT ![w].pc = "done",
                                               ![w].ret = out.error]
               /\ result' = out.error
               /\ UNCHANGED payment
          ELSE /\ payment' = [payment EXCEPT
                     !.refund_amount = out.payment.refund_amount,
                     !.status = out.payment.status,
                     !.refund_reason = IF TruthyStr(sessions[w].reason)
                                       THEN sessions[w].reason ELSE @]
               /\ sessions' = [sessions EXCEPT ![w].pc = "done",
                                               ![w].ret = "True",
                                               ![w].snapshot = out.payment,
                                               ![w].refunded = amount]
               /\ result' = "True"
    /\ UNCHANGED << category, registrations, attempt,
                    sponsorship, otp >>

RaceInit ==
    /\ Init
    /\ category.is_active
    /\ category.fee > 0
    /\ category.gender_allowed = "any"

RaceNext ==
    \/ CreatePayment
    \/ \E w \in Workers, r \in RefundInputs : RefundGet(w, r)
    \/ \E w \in Workers : RefundCommit(w)

RefundRaceSpec == RaceInit /\ [][RaceNext]_vars

\* ------------------------------------------- delivery of payment outcomes
\* The gateway callback or the timeout sweep resolving an open payment
\* through PaymentService.update_payment_status.
DeliverOutcome ==
    /\ is_pending(payment)
    /\ \E status \in {"success", "failed", "cancelled"} :
          UpdatePaymentStatus(status)

FairSpec == Init /\ [][Next]_vars /\ WF_vars(DeliverOutcome)

\* -------------------------------------------------------------- Sponsorship
\* column defaults of a new row: status APPLIED, approved_amount NULL
NewSponsorship(requested_amount) ==
    [status |-> "applied", requested_amount |-> requested_amount,
     approved_amount |-> None]

sponsorship_can_be_approved(sp) == sp.status \in {"applied", "under_review"}
sponsorship_can_be_rejected(sp) == sp.status \in {"applied", "under_review"}

\* variant that also lets a rejected sponsorship be cancelled
sponsorship_can_be_cancelled_after_rejection(sp) ==
    sp.status \in {"applied", "under_review", "approved", "rejected"}

sponsorship_can_be_cancelled(sp) ==
    sp.status \in {"applied", "under_review", "approved"}

final_amount(sp) ==
    IF sp.approved_amount # None THEN sp.approved_amount[1]
    ELSE sp.requested_amount

\* Each method: the row afterwards and the ValueError raised
sponsorship_approve(sp, approved_amount) ==
    IF ~sponsorship_can_be_approved(sp)
    THEN [sponsorship |-> sp, error |-> "Sponsorship cannot be approved"]
    ELSE [sponsorship |->
             [sp EXCEPT !.status = "approved",
                        !.approved_amount = IF approved_amount # None
                                            THEN approved_amount ELSE @],
          error |-> "none"]

sponsorship_reject(sp) ==
    IF ~sponsorship_can_be_rejected(sp)
    THEN [sponsorship |-> sp, error |-> "Sponsorship cannot be rejected"]
    ELSE [sponsorship |-> [sp EXCEPT !.status = "rejected"],
          error |-> "none"]

sponsorship_cancel(sp) ==
    IF ~sponsorship_can_be_cancelled(sp)
    THEN [sponsorship |-> sp, error |-> "Sponsorship cannot be cancelled"]
    ELSE [sponsorship |-> [sp EXCEPT !.status = "cancelled"],
          error |-> "none"]

mark_under_review(sp) ==
    IF sp.status # "applied"
    THEN [sponsorship |-> sp,
          error |-> "Only applied sponsorships can be marked as under review"]
    ELSE [sponsorship |-> [sp EXCEPT !.status = "under_review"],
          error |-> "none"]

ApprovedAmounts == {None} \cup {Some(x) : x \in (0 - MaxNegative) .. MaxAmount}

Aside ==
    << category, registrations, attempt, payment, sessions, otp >>

CreateSponsorship ==
    /\ sponsorship.status = "absent"
    /\ \E requested_amount \in Amounts :
          sponsorship' = NewSponsorship(requested_amount)
    /\ result' = "created"
    /\ UNCHANGED Aside

\* approve_sponsorship: the call on the loaded row; an error leaves it as it was
ApproveSponsorship(approved_amount) ==
    /\ sponsorship.status # "absent"
    /\ LET out == sponsorship_approve(sponsorship, approved_amount)
       IN /\ sponsorship' = out.sponsorship
          /\ result' = IF out.error = "none" THEN "approved" ELSE out.error
    /\ UNCHANGED Aside

\* reject_sponsorship
RejectSponsorship ==
    /\ sponsorship.status # "absent"
    /\ LET out == sponsorship_reject(sponsorship)
       IN /\ sponsorship' = out.sponsorship
          /\ result' = IF out.error = "none" THEN "rejected" ELSE out.error
    /\ UNCHANGED Aside

\* cancel_sponsorship
CancelSponsorship ==
    /\ sponsorship.status # "absent"
    /\ LET out == sponsorship_cancel(sponsorship)
       IN /\ sponsorship' = out.sponsorship
          /\ result' = IF out.error = "none" THEN "cancelled" ELSE out.error
    /\ UNCHANGED Aside

\* Sponsorship.mark_under_review
MarkUnderReview ==
    /\ sponsorship.status # "absent"
    /\ LET out == mark_under_review(sponsorship)
       IN /\ sponsorship' = out.sponsorship
          /\ result' = IF out.error = "none" THEN "under review" ELSE out.error
    /\ UNCHANGED Aside

SponsorshipNext ==
    \/ CreateSponsorship
    \/ \E approved_amount \in ApprovedAmounts :
          ApproveSponsorship(approved_amount)
    \/ RejectSponsorship
    \/ CancelSponsorship
    \/ MarkUnderReview

SponsorshipSpec == Init /\ [][SponsorshipNext]_vars

\* ---------------------------------------------------------------------- OTP
Codes == {"000000", "000001"}

hash_otp(code) == << "sha256", code >>
verify_otp(provided_code, hashed_code) == hash_otp(provided_code) = hashed_code

\* the fields Settings declares for OTPs; settings.OTP_MAX_ATTEMPTS is not
\* one of them, so reading it raises AttributeError
SettingsFields == {"OTP_LENGTH", "OTP_EXPIRE_MINUTES", "RATE_LIMIT_OTP_REQUESTS"}

\* expired stands for datetime.utcnow() > expires_at
is_expired(o) == o.expired
is_valid(o) == ~o.is_used /\ ~is_expired(o)

\* OTP.create_otp
create_otp(code) ==
    [code |-> Some(code), hashed_code |-> Some(hash_otp(code)),
     is_used |-> FALSE, attempts |-> 0, expired |-> FALSE]

\* OTP.verify: the row afterwards and what the call returned or raised.
\* is_max_attempts_reached reads settings.OTP_MAX_ATTEMPTS, so the lines
\* after it run only if Settings has that field.
verify(o, provided_code) ==
    IF ~is_valid(o)
    THEN [otp |-> o, ret |-> "False"]
    ELSE IF "OTP_MAX_ATTEMPTS" \notin SettingsFields
    THEN [otp |-> o, ret |-> "AttributeError"]
    ELSE LET tried == [o EXCEPT !.attempts = @ + 1]
         IN IF verify_otp(provided_code, o.hashed_code[1])
            THEN [otp |-> [tried EXCEPT !.is_used = TRUE], ret |-> "True"]
            ELSE [otp |-> tried, ret |-> "False"]

Apart ==
    << category, registrations, attempt, payment, sessions, sponsorship >>

CreateOTP ==
    /\ otp.code = None
    /\ \E code \in Codes : otp' = create_otp(code)
    /\ result' = "created"
    /\ UNCHANGED Apart

VerifyOTP(provided_code) ==
    /\ otp.code # None
    /\ LET out == verify(otp, provided_code)
       IN /\ otp' = out.otp
          /\ result' = out.ret
    /\ UNCHANGED Apart

\* the clock passes expires_at
ExpireOTP ==
    /\ otp.code # None
    /\ ~otp.expired
    /\ otp' = [otp EXCEPT !.expired = TRUE]
    /\ result' = "expired"
    /\ UNCHANGED Apart

MarkUsed ==
    /\ otp.code # None
    /\ otp' = [otp EXCEPT !.is_used = TRUE]
    /\ result' = "mark_used returned"
    /\ UNCHANGED Apart

IncrementAttempts ==
    /\ otp.code # None
    /\ otp.attempts < MaxAttempts
    /\ otp' = [otp EXCEPT !.attempts = @ + 1]
    /\ result' = "increment_attempts returned"
    /\ UNCHANGED Apart

ResetAttempts ==
    /\ otp.code # None
    /\ otp' = [otp EXCEPT !.attempts = 0]
    /\ result' = "reset_attempts returned"
    /\ UNCHANGED Apart

OTPNext ==
    \/ CreateOTP
    \/ \E provided_code \in Codes : VerifyOTP(provided_code)
    \/ ExpireOTP
    \/ MarkUsed
    \/ IncrementAttempts
    \/ ResetAttempts

OTPSpec == Init /\ [][OTPNext]_vars

\* --------------------------------------------------------- BaseRepository
\* BaseRepository.delete on a Payment: Payment has no is_active attribute,
\* so the row is removed by db.delete
DeletePayment ==
    /\ IF payment.status = "absent"
       THEN /\ result' = "False"
            /\ UNCHANGED payment
       ELSE /\ payment' = NoPayment
            /\ result' = "True"
    /\ UNCHANGED << category, registrations, attempt, sessions, sponsorship,
                    otp >>

\* BaseRepository.hard_delete on a Payment
HardDeletePayment ==
    /\ IF payment.status = "absent"
       THEN /\ result' = "False"
            /\ UNCHANGED payment
       ELSE /\ payment' = NoPayment
            /\ result' = "hard deleted"
    /\ UNCHANGED << category, registrations, attempt, sessions, sponsorship,
                    otp >>

RepositoryNext ==
    \/ CreatePayment
    \/ \E status \in PaymentStatus : UpdatePaymentStatus(status)
    \/ \E r \in RefundInputs : ProcessRefund(r)
    \/ DeletePayment
    \/ HardDeletePayment

RepositorySpec == Init /\ [][RepositoryNext]_vars

\* ===================================================================== claims
Refunded(p) == IF p.refund_amount = None THEN 0 ELSE p.refund_amount[1]
HasPayment(s) == payment.status # "absent" /\ payment.registration_id = Some(s)

\* C1: in every reachable state the number of registrations of the
\* category that are confirmed or paid is at most max_participants.
NoOverbooking ==
    current_registrations(registrations) <= category.max_participants

\* C2: two registration requests that raced for the single free seat (each
\* saw one available spot while the other was between its check and its
\* insert) never both end with a registration.
LastSeatRace ==
    \A s1, s2 \in Students :
        (/\ s1 # s2
         /\ attempt[s1].raced /\ attempt[s2].raced
         /\ attempt[s1].seen = 1 /\ attempt[s2].seen = 1)
        => ~(attempt[s1].pc = "created" /\ attempt[s2].pc = "created")

\* C3: over every step, a set refund_amount is at most amount and a set
\* refund_amount stays set and does not decrease.
RefundBoundedMonotone ==
    [][/\ (payment'.refund_amount # None
             => payment'.refund_amount[1] <= payment'.amount)
       /\ (payment.refund_amount # None
             => /\ payment'.refund_amount # None
                /\ payment'.refund_amount[1] >= payment.refund_amount[1])
      ]_vars

\* C4: a refund of x on a successful or partially refunded payment that
\* keeps the total below amount succeeds, adds x to refund_amount and
\* leaves status partially_refunded; one that would push the total above
\* amount fails with the exceeds-remaining error and changes nothing.
PartialRefundsAccumulate ==
    [][\A x \in Amounts :
          (/\ ProcessRefund(Some(x))
           /\ payment.status \in {"success", "partially_refunded"}
           /\ Refunded(payment) >= 0)
          => IF Refunded(payment) + x < payment.amount
             THEN /\ result' = "True"
                  /\ payment'.refund_amount = Some(Refunded(payment) + x)
                  /\ payment'.status = "partially_refunded"
             ELSE IF Refunded(payment) + x > payment.amount
             THEN /\ result' = "Refund amount exceeds remaining amount"
                  /\ payment' = payment
             ELSE TRUE
      ]_vars

\* C5: in every reachable state refund_amount = amount implies status
\* refunded, and 0 < refund_amount < amount implies partially_refunded.
RefundStatusReconciled ==
    payment.refund_amount # None =>
        /\ (payment.refund_amount[1] = payment.amount
              => payment.status = "refunded")
        /\ (0 < payment.refund_amount[1]
              /\ payment.refund_amount[1] < payment.amount
              => payment.status = "partially_refunded")

\* C6: when two concurrent refund requests have both reported success, the
\* stored refund_amount is the sum of the two refunds and is at most amount.
ConcurrentRefundsSerialized ==
    (\A w \in Workers : sessions[w].pc = "done" /\ sessions[w].ret = "True")
    => /\ payment.refund_amount =
             Some(sessions[1].refunded + sessions[2].refunded)
       /\ sessions[1].refunded + sessions[2].refunded <= payment.amount

\* C7: a step that marks an open payment failed or cancelled while its
\* registration, in a fee-bearing category, is confirmed leaves that
\* registration cancelled and the occupied count one lower.
CompensationOnPaymentFailure ==
    [][\A s \in Students :
          (/\ HasPayment(s)
           /\ category.fee > 0
           /\ registrations[s].status = "confirmed"
           /\ is_pending(payment)
           /\ payment'.status \in {"failed", "cancelled"})
          => /\ registrations'[s].status = "cancelled"
             /\ current_registrations(registrations')
                  = current_registrations(registrations) - 1
      ]_vars

\* C8: the first delivery of a failed outcome for a confirmed registration's
\* payment cancels the registration and lowers the occupied count by one;
\* a second delivery returns normally and changes neither.
FailedOutcomeIdempotent ==
    [][\A s \in Students :
          (/\ HasPayment(s)
           /\ UpdatePaymentStatus("failed"))
          => IF is_pending(payment) /\ registrations[s].status = "confirmed"
             THEN /\ registrations'[s].status = "cancelled"
                  /\ current_registrations(registrations')
                       = current_registrations(registrations) - 1
             ELSE IF payment.status = "failed"
             THEN /\ registrations' = registrations
                  /\ result' = "True"
             ELSE TRUE
      ]_vars

\* C9: under fair delivery of payment outcomes, a registration that holds
\* a seat while its payment is initiated or pending eventually becomes
\* paid or cancelled.
NoSeatHeldForever ==
    \A s \in Students :
        (/\ registrations[s].status = "confirmed"
         /\ HasPayment(s)
         /\ is_pending(payment))
        ~> (registrations[s].status \in {"paid", "cancelled"})

\* C10: cancelling a paid registration fails with
\* CannotCancelPaidRegistration and leaves it paid, unless its payment has
\* been refunded, in which case the registration becomes cancelled.
CancelPaidNeedsRefund ==
    [][\A s \in Students :
          (Cancel(s) /\ registrations[s].status = "paid")
          => IF HasPayment(s) /\ is_refunded(payment)
             THEN registrations'[s].status = "cancelled"
             ELSE /\ result' = "CannotCancelPaidRegistration"
                  /\ registrations'[s].status = "paid"
      ]_vars

\* C11: a registration transition call (confirm, cancel, reject, mark-paid)
\* never returns normally while leaving the status as it was.
Returned ==
    {"confirm returned", "cancel returned", "reject returned",
     "mark_as_paid returned"}

RefusedTransitionReportsError ==
    [][\A s \in Students :
          (/\ Confirm(s) \/ Cancel(s) \/ Reject(s) \/ MarkAsPaid(s)
           /\ result' \in Returned)
          => registrations'[s].status # registrations[s].status
      ]_vars

\* C12: every status change of a registration is creation as pending or one
\* of pending->confirmed, pending->rejected, pending->cancelled,
\* confirmed->paid, confirmed->cancelled; so paid, cancelled and rejected
\* never change.
RegistrationEdges ==
    {<< "pending", "confirmed" >>, << "pending", "rejected" >>,
     << "pending", "cancelled" >>, << "confirmed", "paid" >>,
     << "confirmed", "cancelled" >>}

RegistrationTransitionsAllowed ==
    [][\A s \in Students :
          registrations'[s].status # registrations[s].status
          => IF registrations[s].status = "absent"
             THEN registrations'[s].status = "pending"
             ELSE << registrations[s].status, registrations'[s].status >>
                     \in RegistrationEdges
      ]_vars

\* a cancel was just attempted while one registration is paid and another
\* rejected, each reached through the graph
TerminalRegistrationsReached ==
    /\ \E s \in Students : registrations[s].status = "paid"
    /\ \E s \in Students : registrations[s].status = "rejected"
    /\ result = "cancel returned"

\* C13: a registration becomes paid only while the payment made for it has
\* status success.
PaidOnlyWithSuccessfulPayment ==
    [][\A s \in Students :
          (registrations'[s].status = "paid" /\ registrations[s].status # "paid")
          => (HasPayment(s) /\ payment.status = "success")
      ]_vars

\* C14: a cancel from pending or confirmed, and a reject from pending, leave
\* the occupied count one lower and the available count one higher.
SeatReleasedOnCancelOrReject ==
    [][\A s \in Students :
          (\/ Cancel(s) /\ registrations[s].status \in {"pending", "confirmed"}
           \/ Reject(s) /\ registrations[s].status = "pending")
          => /\ current_registrations(registrations')
                  = current_registrations(registrations) - 1
             /\ available_spots(category, registrations')
                  = available_spots(category, registrations) + 1
      ]_vars

\* C15: in every reachable state a registration takes one slot of the
\* category exactly when it is confirmed or paid (taking it away lowers the
\* occupied count by one), a pending, cancelled or rejected one takes none,
\* and the occupied count is the number of confirmed and paid registrations.
Without(s) == [registrations EXCEPT ![s] = NoRegistration]

OccupiedCountMatches ==
    /\ \A s \in Students :
          current_registrations(registrations)
            = current_registrations(Without(s))
                + (IF registrations[s].status \in {"confirmed", "paid"}
                   THEN 1 ELSE 0)
    /\ current_registrations(registrations)
         = Cardinality({s \in Students : is_active(registrations[s])})

\* one registration holds a slot while another is pending, cancelled or
\* rejected
SlotHeldBesideUnheld ==
    /\ \E s \in Students : registrations[s].status \in {"confirmed", "paid"}
    /\ \E s \in Students :
          registrations[s].status \in {"pending", "cancelled", "rejected"}

\* C16: in every reachable state a registration has a payment only if the
\* fee of its category is greater than zero.
PaymentOnlyForFee ==
    \A s \in Students : HasPayment(s) => category.fee > 0

\* C17: a registration request made while the category is full or inactive,
\* or with an age or gender the category does not admit, is refused and
\* changes nothing: no registration, no payment, the same occupied count;
\* and a refused request has no registration record.
Refusable(age, gender) ==
    \/ is_full(category, registrations)
    \/ ~category.is_active
    \/ ~is_age_eligible(category, age)
    \/ ~is_gender_eligible(category, gender)

CreatedPaymentInitiated ==
    [][CreatePayment
          => (payment'.status = "initiated" /\ payment'.refund_amount = None)
      ]_vars

\* C19: every status change of an existing payment is one of
\* initiated->pending/success/failed/cancelled, pending->success/failed,
\* success->refunded/partially_refunded,
\* partially_refunded->refunded/partially_refunded; so failed, cancelled
\* and refunded never change.
PaymentEdges ==
    {<< "initiated", "pending" >>, << "initiated", "success" >>,
     << "initiated", "failed" >>, << "initiated", "cancelled" >>,
     << "pending", "success" >>, << "pending", "failed" >>,
     << "success", "refunded" >>, << "success", "partially_refunded" >>,
     << "partially_refunded", "refunded" >>}

PaymentTransitionsAllowed ==
    [][(payment.status # "absent" /\ payment'.status # payment.status)
          => << payment.status, payment'.status >> \in PaymentEdges
      ]_vars

\* C20: a refund is accepted only for a payment whose status is success or
\* partially_refunded; a refund attempted on an initiated, pending, failed,
\* cancelled or refunded payment is refused and leaves status,
\* refund_amount and refund_reason as they were.
NotRefundable == {"initiated", "pending", "failed", "cancelled", "refunded"}

RefundOnlyWhenSuccessful ==
    [][\A r \in RefundInputs :
          ProcessRefund(r)
          => /\ result' = "True"
                  => payment.status \in {"success", "partially_refunded"}
             /\ payment.status \in NotRefundable
                  => /\ result' # "True"
                     /\ payment'.status = payment.status
                     /\ payment'.refund_amount = payment.refund_amount
                     /\ payment'.refund_reason = payment.refund_reason
      ]_vars

\* a refund was just refused on a failed payment and on no earlier refund
RefundRefusedOnFailed ==
    /\ payment.status = "failed"
    /\ payment.refund_amount = None
    /\ result = "False"

\* C21: a refund of zero or of a negative amount on a successful payment is
\* refused and leaves refund_amount and status unchanged, so a set
\* refund_amount is always greater than zero and at most amount.
NonPositiveRefundRefused ==
    [][/\ \A x \in (0 - MaxNegative) .. 0 :
             (ProcessRefund(Some(x)) /\ payment.status = "success")
             => /\ result' # "True"
                /\ payment'.refund_amount = payment.refund_amount
                /\ payment'.status = payment.status
       /\ payment'.refund_amount # None
             => /\ 0 < payment'.refund_amount[1]
                /\ payment'.refund_amount[1] <= payment'.amount
      ]_vars

\* C22: a refund carried out on the payment of a registration finds that
\* registration paid and leaves it paid, with the occupied count of the
\* category unchanged.
RefundLeavesRegistrationPaid ==
    [][\A s \in Students :
          (/\ \E r \in RefundInputs : ProcessRefund(r)
           /\ result' = "True"
           /\ HasPayment(s))
          => /\ registrations[s].status = "paid"
             /\ registrations'[s].status = "paid"
             /\ current_registrations(registrations')
                  = current_registrations(registrations)
      ]_vars

\* C23: in every reachable state of a sponsorship approved_amount is set
\* exactly when the status is approved.
ApprovedAmountIffApproved ==
    sponsorship.status # "absent"
    => (sponsorship.approved_amount # None <=> sponsorship.status = "approved")

\* C24: an approval given no amount stores requested_amount as
\* approved_amount; an approval given an amount stores that amount.
ApprovalStoresAmount ==
    [][/\ (ApproveSponsorship(None) /\ result' = "approved")
             => sponsorship'.approved_amount
                  = Some(sponsorship.requested_amount)
       /\ \A x \in 1 .. MaxAmount :
             (ApproveSponsorship(Some(x)) /\ result' = "approved")
             => sponsorship'.approved_amount = Some(x)
      ]_vars

\* C25: an approval with an amount that is zero or negative is refused:
\* status and approved_amount are the same after the call as before it.
NonPositiveApprovalRefused ==
    [][\A x \in (0 - MaxNegative) .. 0 :
          ApproveSponsorship(Some(x))
          => /\ sponsorship'.status = sponsorship.status
             /\ sponsorship'.approved_amount = sponsorship.approved_amount
      ]_vars

\* C26: every status change of a sponsorship is applied->under_review,
\* applied/under_review->approved, applied/under_review->rejected or
\* applied/under_review/approved->cancelled; a transition attempted from
\* rejected, cancelled or expired fails with an error and leaves the status
\* unchanged.
SponsorshipEdges ==
    {<< "applied", "under_review" >>,
     << "applied", "approved" >>, << "under_review", "approved" >>,
     << "applied", "rejected" >>, << "under_review", "rejected" >>,
     << "applied", "cancelled" >>, << "under_review", "cancelled" >>,
     << "approved", "cancelled" >>}

TerminalSponsorship == {"rejected", "cancelled", "expired"}

Fails(out, sp) == out.error # "none" /\ out.sponsorship = sp

SponsorshipTransitionsAllowed ==
    [][/\ (sponsorship.status # "absent"
             /\ sponsorship'.status # sponsorship.status)
          => << sponsorship.status, sponsorship'.status >> \in SponsorshipEdges
       /\ (/\ sponsorship.status \in TerminalSponsorship
           /\ \/ \E a \in ApprovedAmounts : ApproveSponsorship(a)
              \/ RejectSponsorship
              \/ CancelSponsorship
              \/ MarkUnderReview)
          => /\ result' \notin {"approved", "rejected", "cancelled",
                                "under review"}
             /\ sponsorship' = sponsorship
       /\ \A st \in TerminalSponsorship :
             LET sp == [sponsorship EXCEPT !.status = st]
             IN /\ \A a \in ApprovedAmounts : Fails(sponsorship_approve(sp, a), sp)
                /\ Fails(sponsorship_reject(sp), sp)
                /\ Fails(sponsorship_cancel(sp), sp)
                /\ Fails(mark_under_review(sp), sp)
      ]_vars

\* an approval was just attempted on a sponsorship cancelled after its
\* approval
ApproveRefusedAfterCancel ==
    /\ sponsorship.status = "cancelled"
    /\ sponsorship.approved_amount # None
    /\ result = "Sponsorship cannot be approved"

\* C27: a payment that exists is never removed by any operation.
PaymentNeverRemoved ==
    [][payment.status # "absent" => payment'.status # "absent"]_vars

\* C28: in every reachable state confirmed_at is set whenever the status is
\* confirmed or paid and cancelled_at is set exactly when the status is
\* cancelled; a transition call that leaves the status as it was changes
\* neither timestamp.
Stamped(r) ==
    /\ r.status \in {"confirmed", "paid"} => r.confirmed_at
    /\ r.cancelled_at <=> r.status = "cancelled"

TimestampsFollowStatus ==
    [][\A s \in Students :
          /\ Stamped(registrations[s])
          /\ Stamped(registrations'[s])
          /\ (/\ Confirm(s) \/ Cancel(s) \/ Reject(s) \/ MarkAsPaid(s)
              /\ registrations'[s].status = registrations[s].status)
             => /\ registrations'[s].confirmed_at = registrations[s].confirmed_at
                /\ registrations'[s].cancelled_at = registrations[s].cancelled_at
      ]_vars

\* mark_as_paid was just refused on a registration cancelled after its
\* confirmation, the only registration there is
RefusedOnCancelledAfterConfirm ==
    /\ result = "mark_as_paid returned"
    /\ \E s \in Students :
          /\ registrations[s].status = "cancelled"
          /\ registrations[s].confirmed_at
          /\ registrations[s].cancelled_at
          /\ \A t \in Students \ {s} : registrations[t].status = "absent"

\* C29: update_payment_status on an existing payment returns True; it sets
\* the status when success, failed or cancelled is requested and leaves
\* status and refund_amount as they were for initiated, pending, refunded or
\* partially_refunded; for a payment that does not exist it returns False
\* and changes nothing.
StatusUpdateOnlyForOutcomes ==
    [][\A status \in PaymentStatus :
          UpdatePaymentStatus(status)
          => IF payment.status = "absent"
             THEN result' = "False" /\ payment' = payment
             ELSE /\ result' = "True"
                  /\ payment'.refund_amount = payment.refund_amount
                  /\ payment'.status =
                        IF status \in {"success", "failed", "cancelled"}
                        THEN status ELSE payment.status
      ]_vars

\* a status update on an initiated payment just returned True and left it
\* initiated
IgnoredStatusReturnedTrue ==
    /\ payment.status = "initiated"
    /\ result = "True"

\* C30: every OTP.verify call returns True or False; it returns True only
\* on an OTP that was unused and is used afterwards, raises attempts by at
\* most one, and returns False whenever it leaves attempts as they were.
VerifyCountsAttempts ==
    [][\A provided_code \in Codes :
          VerifyOTP(provided_code)
          => /\ result' \in {"True", "False"}
             /\ result' = "True" => (~otp.is_used /\ otp'.is_used)
             /\ otp'.attempts \in {otp.attempts, otp.attempts + 1}
             /\ otp'.attempts = otp.attempts => result' = "False"
      ]_vars

====
